---- MODULE Spec2Model ----
(***************************************************************************)
(* A model of the nekoneko-space-travel repository: the price calculator   *)
(* of the booking agent, the health-requirement check of the safety agent, *)
(* the alert notifier's fan-out and the session gauge of the metrics       *)
(* manager, the system monitor and its polling workers, the payment        *)
(* processor, the customer service functions and the Streamlit pages.      *)
(* Each subsystem has its own specification (PriceSpec, HealthSpec,        *)
(* NotifierSpec, MetricsSpec, MonitorSpec, LoopSpec, AlertSpec,            *)
(* PaymentSpec, CustomerSpec, BookingSpec, SchemaSpec, TotalSpec,          *)
(* TrainingSpec, WeatherSpec, MapSpec); the variables of the other         *)
(* subsystems stay at their idle values.                                   *)
(***************************************************************************)
EXTENDS Integers, Sequences, FiniteSets, TLC

VARIABLES price, health, notifier, lastAlert, active_sessions, ACTIVE_USERS,
          ERRORS_TOTAL

\* system_monitor.SystemMonitor
VARIABLES stop_flag, workers, alert_callbacks, lastPoll, lastCall, stopPending,
          resourceCheck, alertCall

\* payment_processor.PaymentProcessor, customer_service_agent, app
VARIABLES payment, customer, widgets, session_state, page, validation

\* The database of migrations/versions/001_initial.py
VARIABLES tables, rows, alembic_version, migration

\* training_simulator, space_weather, space_map
\* PaymentProcessor.calculate_total
VARIABLES total

VARIABLES training, weather, launch

monitorVars == <<stop_flag, workers, alert_callbacks, lastPoll, lastCall,
                 stopPending, resourceCheck, alertCall>>

paymentVars == <<payment>>

customerVars == <<customer>>

bookingVars == <<widgets, session_state, page, validation>>

schemaVars == <<tables, rows, alembic_version, migration>>

toolVars == <<total, training, weather, launch>>

vars == <<price, health, notifier, lastAlert, active_sessions, ACTIVE_USERS,
          ERRORS_TOTAL, schemaVars, toolVars,
          monitorVars, paymentVars, customerVars, bookingVars>>

(***************************************************************************)
(* Bounds of the model.                                                    *)
(***************************************************************************)
MaxDays == 3

MaxPassengers == 3

MaxGauge == 6

MaxErrors == 2

(***************************************************************************)
(* Strings are sequences of characters, so that str.lower() is computed    *)
(* character by character.                                                 *)
(***************************************************************************)
UpperLetters == <<"A","B","C","D","E","F","G","H","I","J","K","L","M",
                  "N","O","P","Q","R","S","T","U","V","W","X","Y","Z">>

LowerLetters == <<"a","b","c","d","e","f","g","h","i","j","k","l","m",
                  "n","o","p","q","r","s","t","u","v","w","x","y","z">>

LowerChar(c) ==
    IF \E i \in 1..Len(UpperLetters) : UpperLetters[i] = c
    THEN LowerLetters[CHOOSE i \in 1..Len(UpperLetters) : UpperLetters[i] = c]
    ELSE c

\* str.lower()
Lower(s) == [i \in 1..Len(s) |-> LowerChar(s[i])]

s_moon == <<"m","o","o","n">>

s_mars == <<"m","a","r","s">>

s_space_station == <<"s","p","a","c","e","_","s","t","a","t","i","o","n">>

s_economy == <<"e","c","o","n","o","m","y">>

s_business == <<"b","u","s","i","n","e","s","s">>

s_first == <<"f","i","r","s","t">>

(***************************************************************************)
(* booking_agent.calculate_price                                           *)
(***************************************************************************)
MoonBase == 1000000

MarsBase == 5000000

StationBase == 800000

DefaultBase == 1000000

\* base_prices.get(key, 1000000)
base_prices_get(key) ==
    CASE key = s_moon -> MoonBase
      [] key = s_mars -> MarsBase
      [] key = s_space_station -> StationBase
      [] OTHER -> DefaultBase

\* The multiplier table with the business and first entries exchanged.
package_multipliers_get_swapped(key) ==
    CASE key = s_economy -> 10
      [] key = s_business -> 20
      [] key = s_first -> 15
      [] OTHER -> 10

\* package_multipliers.get(key, 1.0), in tenths (1.0 = 10, 1.5 = 15, 2.0 = 20)
package_multipliers_get(key) ==
    CASE key = s_economy -> 10
      [] key = s_business -> 15
      [] key = s_first -> 20
      [] OTHER -> 10

\* calculate_price looking the destination up as it was typed.
calculate_price_case_sensitive(destination, days, package_type, passengers) ==
    LET base_price == base_prices_get(destination)
        package_multiplier == package_multipliers_get(Lower(package_type))
    IN  [kind |-> "return",
         value |-> (base_price * package_multiplier * days * passengers) \div 10]

\* The outcome of calculate_price(destination, days, package_type, passengers):
\* the function has no raise statement and returns the product.  Every base
\* price is a multiple of 10, so the division by 10 of the tenths is exact.
calculate_price(destination, days, package_type, passengers) ==
    LET base_price == base_prices_get(Lower(destination))
        package_multiplier == package_multipliers_get(Lower(package_type))
    IN  [kind |-> "return",
         value |-> (base_price * package_multiplier * days * passengers) \div 10]

\* Inputs of the price calculator.
DestinationInputs ==
    { s_moon, <<"M","o","o","n">>, s_mars, <<"M","A","R","S">>,
      s_space_station, <<"S","p","a","c","e","_","S","t","a","t","i","o","n">>,
      <<"i","n","v","a","l","i","d">>, <<"v","e","n","u","s">> }

PackageInputs ==
    { s_economy, <<"E","c","o","n","o","m","y">>, s_business,
      <<"B","U","S","I","N","E","S","S">>, s_first, <<"F","i","r","s","t">>,
      <<"l","u","x","u","r","y">> }

DayInputs == (-1)..MaxDays

PassengerInputs == (-1)..MaxPassengers

NoCall == [state |-> "idle"]

PriceInit ==
    \E d \in DestinationInputs, n \in DayInputs, p \in PackageInputs,
       k \in PassengerInputs :
        price = [state |-> "called", destination |-> d, days |-> n,
                 package_type |-> p, passengers |-> k]

\* One call of calculate_price on the pending arguments.
CalculatePrice ==
    /\ price.state = "called"
    /\ price' = [price EXCEPT !.state = "done"] @@
                [outcome |-> calculate_price(price.destination, price.days,
                                             price.package_type, price.passengers)]
    /\ UNCHANGED <<health, notifier, lastAlert, active_sessions, ACTIVE_USERS,
                   ERRORS_TOTAL, schemaVars, toolVars,
                   monitorVars, paymentVars, customerVars,
                   bookingVars>>

(***************************************************************************)
(* safety_agent.check_health_requirements                                  *)
(***************************************************************************)
\* The list of checks with the field name the tests' record uses.
required_checks_heart_rate ==
    <<"blood_pressure", "heart_rate", "bone_density", "inner_ear", "vision">>

required_checks ==
    <<"blood_pressure", "heart_condition", "bone_density", "inner_ear", "vision">>

SystolicLimit == 140

DiastolicLimit == 90

\* check_health_requirements comparing with >= instead of >.
check_health_requirements_inclusive(medical_history) ==
    IF \E i \in 1..Len(required_checks) :
           required_checks[i] \notin DOMAIN medical_history
    THEN [kind |-> "return", value |-> FALSE]
    ELSE LET bp == medical_history["blood_pressure"]
         IN  IF "systolic" \notin DOMAIN bp
             THEN [kind |-> "raise", exc |-> "KeyError"]
             ELSE IF bp["systolic"] >= SystolicLimit
             THEN [kind |-> "return", value |-> FALSE]
             ELSE IF "diastolic" \notin DOMAIN bp
             THEN [kind |-> "raise", exc |-> "KeyError"]
             ELSE IF bp["diastolic"] >= DiastolicLimit
             THEN [kind |-> "return", value |-> FALSE]
             ELSE [kind |-> "return", value |-> TRUE]

\* The outcome of check_health_requirements(medical_history): the scan of
\* required_checks, then the two subscripted reads of the blood pressure,
\* each of which raises KeyError when its key is missing.
check_health_requirements(medical_history) ==
    IF \E i \in 1..Len(required_checks) :
           required_checks[i] \notin DOMAIN medical_history
    THEN [kind |-> "return", value |-> FALSE]
    ELSE LET bp == medical_history["blood_pressure"]
         IN  IF "systolic" \notin DOMAIN bp
             THEN [kind |-> "raise", exc |-> "KeyError"]
             ELSE IF bp["systolic"] > SystolicLimit
             THEN [kind |-> "return", value |-> FALSE]
             ELSE IF "diastolic" \notin DOMAIN bp
             THEN [kind |-> "raise", exc |-> "KeyError"]
             ELSE IF bp["diastolic"] > DiastolicLimit
             THEN [kind |-> "return", value |-> FALSE]
             ELSE [kind |-> "return", value |-> TRUE]

\* Inputs of the health check: blood pressure readings with and without each
\* of the two values, and every combination of the other fields.
SystolicInputs == {120, 140, 141, 150}

DiastolicInputs == {80, 90, 91}

BloodPressureInputs ==
    { [systolic |-> s, diastolic |-> d] : s \in SystolicInputs, d \in DiastolicInputs }
    \cup { [systolic |-> s] : s \in SystolicInputs }
    \cup { [diastolic |-> d] : d \in DiastolicInputs }
    \cup { << >> }

OtherFields ==
    {"heart_condition", "heart_rate", "bone_density", "inner_ear", "vision",
     "last_check_date"}

MedicalHistoryInputs ==
    { [f \in S |-> "recorded"] : S \in SUBSET OtherFields }
    \cup { [f \in S |-> "recorded"] @@ ("blood_pressure" :> bp) :
             S \in SUBSET OtherFields, bp \in BloodPressureInputs }

HealthInit ==
    \E mh \in MedicalHistoryInputs :
        health = [state |-> "called", medical_history |-> mh]

\* One call of check_health_requirements on the pending medical history.
CheckHealthRequirements ==
    /\ health.state = "called"
    /\ health' = [health EXCEPT !.state = "done"] @@
                 [outcome |-> check_health_requirements(health.medical_history)]
    /\ UNCHANGED <<price, notifier, lastAlert, active_sessions, ACTIVE_USERS,
                   ERRORS_TOTAL, schemaVars, toolVars,
                   monitorVars, paymentVars, customerVars,
                   bookingVars>>

(***************************************************************************)
(* alert_notifier.AlertNotifier                                            *)
(*                                                                         *)
(* An Optional value (the result of os.getenv, the email_recipients        *)
(* argument) is a record: None, or Some(v).                                *)
(***************************************************************************)
None == [is_none |-> TRUE]

Some(v) == [is_none |-> FALSE, value |-> v]

\* Python truth value of an Optional[str]: None and "" are false.
TruthyStr(o) == ~o.is_none /\ o.value # ""

\* Python truth value of an Optional[List[str]]: None and [] are false.
TruthyList(o) == ~o.is_none /\ Len(o.value) > 0

Channels == <<"email", "slack", "line", "discord">>

\* What a transport (one SMTP session, one requests.post with its
\* raise_for_status) does when it is called: it completes, or it raises.
TransportOutcomes == {"ok", "ConnectionError", "HTTPError", "ConfigError"}

\* A sender without its try/except: the transport's exception propagates.
TrySend_unguarded(channel, outcome) ==
    [result |-> (outcome = "ok"),
     calls  |-> << [channel |-> channel, outcome |-> outcome] >>,
     raised |-> (outcome # "ok")]

\* The body shared by the four senders: the transport is called once inside
\* try; the sender returns True when it completes and the broad except
\* clause turns every exception into False.
TrySend(channel, outcome) ==
    [result |-> (outcome = "ok"),
     calls  |-> << [channel |-> channel, outcome |-> outcome] >>,
     raised |-> FALSE]

send_email_alert(outcome) == TrySend("email", outcome)

send_slack_alert(outcome) == TrySend("slack", outcome)

send_line_alert(outcome) == TrySend("line", outcome)

send_discord_alert(outcome) == TrySend("discord", outcome)

\* The statement of broadcast_alert giving up after the first failed channel.
Attempt_stop_on_failure(acc, configured, key, sent) ==
    IF acc.raised \/ ~configured
       \/ (\E c \in DOMAIN acc.results : ~acc.results[c])
    THEN acc
    ELSE IF sent.raised
    THEN [acc EXCEPT !.calls = acc.calls \o sent.calls, !.raised = TRUE]
    ELSE [acc EXCEPT !.results = (key :> sent.result) @@ acc.results,
                     !.calls = acc.calls \o sent.calls]

\* One "if <configured>: results[key] = self.send_..." statement of
\* broadcast_alert; an exception out of a sender would end the broadcast.
Attempt(acc, configured, key, sent) ==
    IF acc.raised \/ ~configured
    THEN acc
    ELSE IF sent.raised
    THEN [acc EXCEPT !.calls = acc.calls \o sent.calls, !.raised = TRUE]
    ELSE [acc EXCEPT !.results = (key :> sent.result) @@ acc.results,
                     !.calls = acc.calls \o sent.calls]

\* broadcast_alert testing its settings with "is not None" instead of truth.
broadcast_alert_not_none(self, email_recipients, env) ==
    LET r0 == [results |-> << >>, calls |-> << >>, raised |-> FALSE]
        r1 == Attempt(r0, ~email_recipients.is_none, "email",
                      send_email_alert(env["email"]))
        r2 == Attempt(r1, ~self.slack_webhook.is_none, "slack",
                      send_slack_alert(env["slack"]))
        r3 == Attempt(r2, ~self.line_token.is_none, "line",
                      send_line_alert(env["line"]))
        r4 == Attempt(r3, ~self.discord_webhook.is_none, "discord",
                      send_discord_alert(env["discord"]))
    IN  r4

\* broadcast_alert(title, message, severity, email_recipients); env[c] is what
\* the transport of channel c does if it is called during this broadcast.
broadcast_alert(self, email_recipients, env) ==
    LET r0 == [results |-> << >>, calls |-> << >>, raised |-> FALSE]
        r1 == Attempt(r0, TruthyList(email_recipients), "email",
                      send_email_alert(env["email"]))
        r2 == Attempt(r1, TruthyStr(self.slack_webhook), "slack",
                      send_slack_alert(env["slack"]))
        r3 == Attempt(r2, TruthyStr(self.line_token), "line",
                      send_line_alert(env["line"]))
        r4 == Attempt(r3, TruthyStr(self.discord_webhook), "discord",
                      send_discord_alert(env["discord"]))
    IN  r4

\* Values of the environment variables read by __init__.
EnvInputs == {None, Some(""), Some("configured")}

RecipientInputs ==
    {None, Some(<< >>), Some(<<"admin@nekoneko-space.travel">>)}

ChannelSet == {Channels[i] : i \in 1..Len(Channels)}

IdleNotifier ==
    [slack_webhook |-> None, line_token |-> None, discord_webhook |-> None]

NoAlert == [op |-> "none"]

\* AlertNotifier.__init__
NotifierInit ==
    /\ notifier \in [slack_webhook : EnvInputs, line_token : EnvInputs,
                     discord_webhook : EnvInputs]
    /\ lastAlert = NoAlert

NotifierUnchanged ==
    UNCHANGED <<price, health, notifier, active_sessions, ACTIVE_USERS,
                ERRORS_TOTAL, schemaVars, toolVars,
                monitorVars, paymentVars, customerVars,
                bookingVars>>

BroadcastAlert ==
    \E rcpt \in RecipientInputs, env \in [ChannelSet -> TransportOutcomes] :
        LET r == broadcast_alert(notifier, rcpt, env)
        IN  /\ lastAlert' = [op |-> "broadcast_alert", recipients |-> rcpt,
                             results |-> r.results, calls |-> r.calls,
                             raised |-> r.raised]
            /\ NotifierUnchanged

SentAlert(op, recipients, r) ==
    [op |-> op, recipients |-> recipients, result |-> r.result,
     calls |-> r.calls, raised |-> r.raised]

\* A direct call of send_email_alert with a list of recipients.
SendEmailAlert ==
    \E rcpt \in {o \in RecipientInputs : ~o.is_none}, outcome \in TransportOutcomes :
        /\ lastAlert' = SentAlert("send_email_alert", rcpt, send_email_alert(outcome))
        /\ NotifierUnchanged

SendSlackAlert ==
    \E outcome \in TransportOutcomes :
        /\ lastAlert' = SentAlert("send_slack_alert", None, send_slack_alert(outcome))
        /\ NotifierUnchanged

SendLineAlert ==
    \E outcome \in TransportOutcomes :
        /\ lastAlert' = SentAlert("send_line_alert", None, send_line_alert(outcome))
        /\ NotifierUnchanged

SendDiscordAlert ==
    \E outcome \in TransportOutcomes :
        /\ lastAlert' = SentAlert("send_discord_alert", None,
                                  send_discord_alert(outcome))
        /\ NotifierUnchanged

(***************************************************************************)
(* metrics.MetricsManager with the module-level gauge and counter          *)
(***************************************************************************)
UserIds == {"user123", "user456", "user789"}

ErrorTypes == {"database_connection"}

\* The error types the system monitor records.
MonitorErrorTypes ==
    {"system_check_failed", "network_check_failed", "monitoring_loop_error"}

\* The methods class MetricsManager defines.
MetricsManagerMethods ==
    {"record_booking", "start_user_session", "end_user_session", "record_error",
     "measure_latency"}

\* MetricsManager.__init__ and the freshly registered metrics.
MetricsInit ==
    /\ active_sessions = {}
    /\ ACTIVE_USERS = 0
    /\ ERRORS_TOTAL = [e \in ErrorTypes \cup MonitorErrorTypes |-> 0]

\* start_user_session(user_id): the keys of _active_sessions are kept (the
\* time stamps stored under them are never read).
start_user_session(user_id) ==
    /\ ACTIVE_USERS < MaxGauge
    /\ active_sessions' = active_sessions \cup {user_id}
    /\ ACTIVE_USERS' = ACTIVE_USERS + 1
    /\ UNCHANGED <<price, health, notifier, lastAlert, ERRORS_TOTAL,
                   schemaVars, toolVars, monitorVars, paymentVars, customerVars,
                   bookingVars>>

\* end_user_session(user_id)
end_user_session(user_id) ==
    /\ IF user_id \in active_sessions
       THEN /\ active_sessions' = active_sessions \ {user_id}
            /\ ACTIVE_USERS' = ACTIVE_USERS - 1
       ELSE UNCHANGED <<active_sessions, ACTIVE_USERS>>
    /\ UNCHANGED <<price, health, notifier, lastAlert, ERRORS_TOTAL,
                   schemaVars, toolVars, monitorVars, paymentVars, customerVars,
                   bookingVars>>

\* record_error(error_type)
record_error(error_type) ==
    /\ ERRORS_TOTAL[error_type] < MaxErrors
    /\ ERRORS_TOTAL' = [ERRORS_TOTAL EXCEPT ![error_type] = @ + 1]
    /\ UNCHANGED <<price, health, notifier, lastAlert, active_sessions,
                   ACTIVE_USERS, schemaVars, toolVars, monitorVars, paymentVars,
                   customerVars,
                   bookingVars>>

StartUserSession == \E u \in UserIds : start_user_session(u)

EndUserSession == \E u \in UserIds : end_user_session(u)

RecordError == \E e \in ErrorTypes : record_error(e)

(***************************************************************************)
(* system_monitor.SystemMonitor                                            *)
(*                                                                         *)
(* A mapping (dict) is a function from its keys; an empty dict is << >>.   *)
(* Percentages are whole numbers, the network error rate is in thousandths.*)
(***************************************************************************)
MaxWorkers == 2

MaxCallbacks == 2

\* self.alert_threshold of SystemMonitor() (0.01 = 10 thousandths)
alert_threshold ==
    [cpu_percent |-> 80, memory_percent |-> 85, disk_percent |-> 90,
     network_error_rate |-> 10]

\* What psutil reports: the three percentages, or an exception.
OsReadings ==
    { [ok |-> TRUE, cpu |-> 50, memory |-> 50, disk |-> 50],
      [ok |-> TRUE, cpu |-> 95, memory |-> 50, disk |-> 50],
      [ok |-> TRUE, cpu |-> 95, memory |-> 90, disk |-> 95],
      [ok |-> FALSE] }

\* What psutil.net_io_counters gives: an error rate, or an exception.
NetReadings == { [ok |-> TRUE, error_rate |-> 0], [ok |-> TRUE, error_rate |-> 50],
                 [ok |-> FALSE] }

\* Insertion order of the metrics dict of check_system_resources.
ResourceKeys == <<"cpu_percent", "memory_percent", "disk_percent", "timestamp">>

\* Calling metrics_manager.<name>(...): AttributeError unless the class
\* defines the method.
RaisesAttributeError(name) == name \notin MetricsManagerMethods

\* check_system_resources(): the dict it returns and the errors it records.
\* The record_metric call sits inside the try block, so its exception ends
\* in the except clause like a failure of psutil.
check_system_resources(os) ==
    IF ~os.ok
    THEN [ret |-> << >>, errors |-> <<"system_check_failed">>]
    ELSE LET metrics == [cpu_percent |-> os.cpu, memory_percent |-> os.memory,
                         disk_percent |-> os.disk, timestamp |-> "now"]
         IN  IF RaisesAttributeError("record_metric")
             THEN [ret |-> << >>, errors |-> <<"system_check_failed">>]
             ELSE [ret |-> metrics, errors |-> << >>]

\* check_network_health()
check_network_health(net) ==
    IF ~net.ok
    THEN [ret |-> << >>, errors |-> <<"network_check_failed">>]
    ELSE IF RaisesAttributeError("record_metric")
    THEN [ret |-> << >>, errors |-> <<"network_check_failed">>]
    ELSE [ret |-> [error_rate |-> net.error_rate], errors |-> << >>]

\* check_application_health(): the four stub checks return True; the
\* record_metric call is outside any try block.
check_application_health ==
    IF RaisesAttributeError("record_metric")
    THEN [raised |-> TRUE]
    ELSE [raised |-> FALSE,
          ret |-> [web_server |-> TRUE, database |-> TRUE, redis |-> TRUE,
                   message_queue |-> TRUE]]

\* alert leaving its loop at the first callback that raises.
alert_stop_at_failure(callbacks, alert_type, details) ==
    LET n == IF \E i \in 1..Len(callbacks) : callbacks[i] = "raises"
             THEN CHOOSE i \in 1..Len(callbacks) :
                      /\ callbacks[i] = "raises"
                      /\ \A j \in 1..(i - 1) : callbacks[j] # "raises"
             ELSE Len(callbacks)
    IN  [i \in 1..n |->
            [callback |-> i, alert_type |-> alert_type, details |-> details,
             raised |-> (callbacks[i] = "raises")]]

\* alert(alert_type, details): one invocation per registered callback, in
\* registration order; an exception of a callback is logged and swallowed.
alert(callbacks, alert_type, details) ==
    [i \in 1..Len(callbacks) |->
        [callback |-> i, alert_type |-> alert_type, details |-> details,
         raised |-> (callbacks[i] = "raises")]]

RECURSIVE ResourceAlerts(_, _, _)
\* The "for key, value in resources.items()" loop of _monitoring_loop, from
\* the i-th key on: the alerts raised and the callback invocations made.
ResourceAlerts(resources, callbacks, i) ==
    IF i > Len(ResourceKeys)
    THEN [alerts |-> << >>, invocations |-> << >>]
    ELSE LET key == ResourceKeys[i]
             rest == ResourceAlerts(resources, callbacks, i + 1)
         IN  IF /\ key \in DOMAIN resources
                /\ key \in DOMAIN alert_threshold
                /\ resources[key] > alert_threshold[key]
             THEN LET details == [metric |-> key, value |-> resources[key],
                                  threshold |-> alert_threshold[key]]
                  IN  [alerts |-> << [alert_type |-> "resource_threshold_exceeded",
                                      details |-> details] >> \o rest.alerts,
                       invocations |->
                           alert(callbacks, "resource_threshold_exceeded", details)
                           \o rest.invocations]
             ELSE rest

\* The try block of one iteration of _monitoring_loop and its except clause.
\* No service is ever unhealthy, so "service_unhealthy" is never raised.
monitoring_iteration(os, net, callbacks) ==
    LET r == check_system_resources(os)
        ra == ResourceAlerts(r.ret, callbacks, 1)
        n == check_network_health(net)
        neterr == /\ "error_rate" \in DOMAIN n.ret
                  /\ n.ret["error_rate"] > alert_threshold["network_error_rate"]
        na == IF neterr
              THEN [alerts |-> << [alert_type |-> "network_errors",
                                   details |-> n.ret] >>,
                    invocations |-> alert(callbacks, "network_errors", n.ret)]
              ELSE [alerts |-> << >>, invocations |-> << >>]
        h == check_application_health
    IN  [resources |-> r.ret,
         alerts |-> ra.alerts \o na.alerts,
         invocations |-> ra.invocations \o na.invocations,
         errors |-> r.errors \o n.errors
                    \o (IF h.raised THEN <<"monitoring_loop_error">> ELSE << >>)]

\* The counters after record_error for each error of the sequence.
RecordedErrors(errors) ==
    [e \in DOMAIN ERRORS_TOTAL |->
        ERRORS_TOTAL[e] + Cardinality({i \in 1..Len(errors) : errors[i] = e})]

NoPoll == [state |-> "none"]

NoCheck == [state |-> "none"]

NoAlertCall == [state |-> "none"]

\* SystemMonitor.__init__
MonitorInit ==
    /\ stop_flag = FALSE
    /\ workers = << >>
    /\ alert_callbacks = << >>
    /\ lastPoll = NoPoll
    /\ lastCall = "__init__"
    /\ stopPending = {}
    /\ resourceCheck = NoCheck
    /\ alertCall = NoAlertCall

MonitorUnchanged ==
    UNCHANGED <<price, health, notifier, lastAlert, active_sessions, ACTIVE_USERS,
                schemaVars, toolVars, paymentVars, customerVars, bookingVars>>

Running == {w \in 1..Len(workers) : workers[w] # "done"}

\* add_alert_callback(callback): the callback returns or raises when called.
AddAlertCallback ==
    \E behaviour \in {"ok", "raises"} :
        /\ Len(alert_callbacks) < MaxCallbacks
        /\ alert_callbacks' = Append(alert_callbacks, behaviour)
        /\ lastCall' = "add_alert_callback"
        /\ UNCHANGED <<stop_flag, workers, lastPoll, stopPending, resourceCheck, alertCall,
                       ERRORS_TOTAL>>
        /\ MonitorUnchanged

\* start_monitoring(): clears the event and starts a new thread on the loop.
StartMonitoring ==
    /\ Len(workers) < MaxWorkers
    /\ stop_flag' = FALSE
    /\ workers' = Append(workers, "test")
    /\ lastCall' = "start_monitoring"
    /\ UNCHANGED <<alert_callbacks, lastPoll, stopPending, resourceCheck, alertCall,
                   ERRORS_TOTAL>>
    /\ MonitorUnchanged

\* stop_monitoring(): sets the event and returns.  stopPending remembers the
\* workers that were running at the call.
StopMonitoring ==
    /\ stop_flag' = TRUE
    /\ stopPending' = stopPending \cup Running
    /\ lastCall' = "stop_monitoring"
    /\ UNCHANGED <<workers, alert_callbacks, lastPoll, resourceCheck, alertCall, ERRORS_TOTAL>>
    /\ MonitorUnchanged

\* A direct call of check_system_resources().
CheckSystemResources ==
    \E os \in OsReadings :
        LET r == check_system_resources(os)
        IN  /\ \A e \in DOMAIN ERRORS_TOTAL : RecordedErrors(r.errors)[e] <= MaxErrors
            /\ ERRORS_TOTAL' = RecordedErrors(r.errors)
            /\ resourceCheck' = [state |-> "done", os |-> os, ret |-> r.ret]
            /\ lastCall' = "check_system_resources"
            /\ UNCHANGED <<stop_flag, workers, alert_callbacks, lastPoll, stopPending,
                           alertCall>>
            /\ MonitorUnchanged

\* The alerts the monitoring loop raises, as direct calls of alert.
AlertInputs ==
    { [alert_type |-> "resource_threshold_exceeded",
       details |-> [metric |-> m, value |-> 95, threshold |-> alert_threshold[m]]] :
          m \in {"cpu_percent", "memory_percent", "disk_percent"} }
    \cup { [alert_type |-> "network_errors", details |-> [error_rate |-> 50]] }
    \cup { [alert_type |-> "service_unhealthy",
            details |-> [service |-> sv, status |-> FALSE]] :
               sv \in {"database", "redis"} }

\* A direct call of alert(alert_type, details).
Alert ==
    \E a \in AlertInputs :
        /\ alertCall' = [state |-> "done", alert_type |-> a.alert_type,
                         details |-> a.details, callbacks |-> alert_callbacks,
                         invocations |->
                             alert(alert_callbacks, a.alert_type, a.details)]
        /\ lastCall' = "alert"
        /\ UNCHANGED <<stop_flag, workers, alert_callbacks, lastPoll, stopPending,
                       resourceCheck, ERRORS_TOTAL>>
        /\ MonitorUnchanged

\* "while not self._stop_monitoring.is_set()" evaluated by worker w.
WorkerTest(w) ==
    /\ workers[w] = "test"
    /\ workers' = [workers EXCEPT ![w] = IF stop_flag THEN "done" ELSE "poll"]
    /\ UNCHANGED <<stop_flag, alert_callbacks, lastPoll, lastCall, stopPending,
                   resourceCheck, alertCall, ERRORS_TOTAL>>
    /\ MonitorUnchanged

\* The body of the loop with an exception of the iteration ending the worker.
WorkerPoll_exit_on_error(w) ==
    /\ workers[w] = "poll"
    /\ \E os \in OsReadings, net \in NetReadings :
          LET it == monitoring_iteration(os, net, alert_callbacks)
          IN  /\ \A e \in DOMAIN ERRORS_TOTAL :
                     RecordedErrors(it.errors)[e] <= MaxErrors
              /\ ERRORS_TOTAL' = RecordedErrors(it.errors)
              /\ lastPoll' = [state |-> "done", worker |-> w, os |-> os,
                              resources |-> it.resources, alerts |-> it.alerts,
                              invocations |-> it.invocations,
                              errors |-> it.errors,
                              n_callbacks |-> Len(alert_callbacks),
                              after_stop |-> (lastCall = "stop_monitoring")]
    /\ workers' = [workers EXCEPT ![w] =
                       IF \E i \in 1..Len(lastPoll'.errors) :
                              lastPoll'.errors[i] = "monitoring_loop_error"
                       THEN "done" ELSE "sleep"]
    /\ UNCHANGED <<stop_flag, alert_callbacks, lastCall, stopPending, resourceCheck, alertCall>>
    /\ MonitorUnchanged

\* The body of the loop run by worker w, up to the sleep.
WorkerPoll(w) ==
    /\ workers[w] = "poll"
    /\ \E os \in OsReadings, net \in NetReadings :
          LET it == monitoring_iteration(os, net, alert_callbacks)
          IN  /\ \A e \in DOMAIN ERRORS_TOTAL :
                     RecordedErrors(it.errors)[e] <= MaxErrors
              /\ ERRORS_TOTAL' = RecordedErrors(it.errors)
              /\ lastPoll' = [state |-> "done", worker |-> w, os |-> os,
                              resources |-> it.resources, alerts |-> it.alerts,
                              invocations |-> it.invocations,
                              errors |-> it.errors,
                              n_callbacks |-> Len(alert_callbacks),
                              after_stop |-> (lastCall = "stop_monitoring")]
    /\ workers' = [workers EXCEPT ![w] = "sleep"]
    /\ UNCHANGED <<stop_flag, alert_callbacks, lastCall, stopPending, resourceCheck, alertCall>>
    /\ MonitorUnchanged

\* time.sleep(self.check_interval) of worker w ends.
WorkerSleep(w) ==
    /\ workers[w] = "sleep"
    /\ workers' = [workers EXCEPT ![w] = "test"]
    /\ UNCHANGED <<stop_flag, alert_callbacks, lastPoll, lastCall, stopPending,
                   resourceCheck, alertCall, ERRORS_TOTAL>>
    /\ MonitorUnchanged

(***************************************************************************)
(* payment_processor.PaymentProcessor                                      *)
(***************************************************************************)
MaxAmount == 3

\* Exception classes derived from stripe.error.StripeError.
StripeErrors == {"CardError", "APIConnectionError"}

\* What one call of the payment SDK does: it returns an object with an id,
\* raises a StripeError, or raises another exception.
SdkOutcomes ==
    { [kind |-> "ok", id |-> i] : i \in {"id_1", "id_2"} }
    \cup { [kind |-> "raise", exc |-> e] : e \in StripeErrors \cup {"TypeError"} }

\* process_payment(amount, token, customer_email, booking_ref), given what
\* stripe.Charge.create does.
process_payment(amount, token, booking_ref, sdk) ==
    IF sdk.kind = "ok"
    THEN [kind |-> "return", sdk_calls |-> 1,
          value |-> [success |-> TRUE, transaction_id |-> sdk.id,
                     amount |-> amount, status |-> "succeeded"]]
    ELSE IF sdk.exc \in StripeErrors
    THEN [kind |-> "return", sdk_calls |-> 1,
          value |-> [success |-> FALSE, error |-> sdk.exc,
                     booking_ref |-> booking_ref]]
    ELSE [kind |-> "raise", sdk_calls |-> 1, exc |-> sdk.exc]

\* process_refund(transaction_id, amount), given what stripe.Refund.create does.
process_refund(transaction_id, amount, sdk) ==
    IF sdk.kind = "ok"
    THEN [kind |-> "return", sdk_calls |-> 1,
          value |-> [success |-> TRUE, refund_id |-> sdk.id,
                     amount |-> amount, status |-> "succeeded"]]
    ELSE IF sdk.exc \in StripeErrors
    THEN [kind |-> "return", sdk_calls |-> 1,
          value |-> [success |-> FALSE, error |-> sdk.exc,
                     transaction_id |-> transaction_id]]
    ELSE [kind |-> "raise", sdk_calls |-> 1, exc |-> sdk.exc]

PaymentRequests ==
    { [state |-> "called", op |-> "process_payment", amount |-> a, token |-> t,
       booking_ref |-> b] :
        a \in 1..MaxAmount, t \in {"tok_visa", "tok_declined"},
        b \in {"BK123", "BK789"} }
    \cup
    { [state |-> "called", op |-> "process_refund", transaction_id |-> t,
       amount |-> a] :
        t \in {"ch_1", "ch_2"}, a \in {None} \cup {Some(n) : n \in 1..MaxAmount} }

PaymentInit == payment \in PaymentRequests

PaymentUnchanged ==
    UNCHANGED <<price, health, notifier, lastAlert, active_sessions, ACTIVE_USERS,
                ERRORS_TOTAL, schemaVars, toolVars,
                monitorVars, customerVars, bookingVars>>

\* One call of process_payment on the pending request.
ProcessPayment ==
    /\ payment.state = "called"
    /\ payment.op = "process_payment"
    /\ \E sdk \in SdkOutcomes :
          payment' = [payment EXCEPT !.state = "done"] @@
                     [sdk |-> sdk,
                      outcome |-> process_payment(payment.amount, payment.token,
                                                  payment.booking_ref, sdk)]
    /\ PaymentUnchanged

\* One call of process_refund on the pending request.
ProcessRefund ==
    /\ payment.state = "called"
    /\ payment.op = "process_refund"
    /\ \E sdk \in SdkOutcomes :
          payment' = [payment EXCEPT !.state = "done"] @@
                     [sdk |-> sdk,
                      outcome |-> process_refund(payment.transaction_id,
                                                 payment.amount, sdk)]
    /\ PaymentUnchanged

(***************************************************************************)
(* customer_service_agent.handle_inquiry / process_feedback                *)
(*                                                                         *)
(* A text is a sequence of phrases; the Japanese phrases are written in    *)
(* Latin letters ("nya-" is the greeting, "tadachini" is "immediately",    *)
(* "goyoyaku" is "your booking").                                          *)
(***************************************************************************)
MaxRating == 5

\* response_templates.get(inquiry_type, <default>)
response_templates_get(inquiry_type) ==
    CASE inquiry_type = "general" ->
            <<"nya-", "goshitsumon arigatou gozaimasu.",
              "goyoubou ni tsuite shikkari to sapo-to sasete itadakimasu.">>
      [] inquiry_type = "booking" ->
            <<"nya-", "goyoyaku", "ni kansuru otoiawase arigatou gozaimasu.",
              "saiteki na puran wo goteian sasete itadakimasu.">>
      [] inquiry_type = "complaint" ->
            <<"nya-", "gofuben wo okakeshi, taihen moushiwake gozaimasen.",
              "soukyuu ni taiou sasete itadakimasu.">>
      [] inquiry_type = "emergency" ->
            <<"nya-", "kinkyuu no gorenraku arigatou gozaimasu.",
              "tadachini", "taiou chi-mu ni renraku itashimasu.">>
      [] inquiry_type = "feedback" ->
            <<"nya-", "goiken arigatou gozaimasu.",
              "yori yoi sa-bisu teikyou ni ikasasete itadakimasu.">>
      [] OTHER -> <<"nya-", "otoiawase arigatou gozaimasu.">>

\* The table of response times with the high and medium entries exchanged.
sla_hours_get_swapped(priority) ==
    CASE priority = "high" -> 4
      [] priority = "medium" -> 1
      [] priority = "low" -> 24
      [] OTHER -> 24

\* sla_hours.get(priority, 24)
sla_hours_get(priority) ==
    CASE priority = "high" -> 1
      [] priority = "medium" -> 4
      [] priority = "low" -> 24
      [] OTHER -> 24

\* handle_inquiry(inquiry) for a CustomerInquiry object.
handle_inquiry(inquiry) ==
    LET base_response == response_templates_get(inquiry.inquiry_type)
        response_time == sla_hours_get(inquiry.priority)
    IN  base_response
        \o <<"\n\n", ToString(response_time),
             "jikan inai ni shousai na kaitou wo sashiagemasu.">>

\* process_feedback(feedback): the function has no return statement; the
\* follow-up team is notified inside the two nested ifs.
process_feedback(feedback) ==
    [ret |-> None,
     notified |-> (feedback.rating <= 3 /\ feedback.response_required),
     stored |-> TRUE]

InquiryTypeInputs ==
    {"general", "booking", "complaint", "emergency", "feedback", "refund",
     "other", ""}

PriorityInputs == {"high", "medium", "low", "urgent", "HIGH", ""}

CustomerInit ==
    \/ \E t \in InquiryTypeInputs, p \in PriorityInputs :
          customer = [state |-> "called", op |-> "handle_inquiry",
                      inquiry |-> [inquiry_type |-> t, priority |-> p]]
    \/ \E r \in 1..MaxRating, q \in BOOLEAN :
          customer = [state |-> "called", op |-> "process_feedback",
                      feedback |-> [rating |-> r, response_required |-> q]]

CustomerUnchanged ==
    UNCHANGED <<price, health, notifier, lastAlert, active_sessions, ACTIVE_USERS,
                ERRORS_TOTAL, schemaVars, toolVars,
                monitorVars, paymentVars, bookingVars>>

\* One call of handle_inquiry on the pending inquiry.
HandleInquiry ==
    /\ customer.state = "called"
    /\ customer.op = "handle_inquiry"
    /\ customer' = [customer EXCEPT !.state = "done"] @@
                   [response |-> handle_inquiry(customer.inquiry)]
    /\ CustomerUnchanged

\* One call of process_feedback on the pending feedback.
ProcessFeedback ==
    /\ customer.state = "called"
    /\ customer.op = "process_feedback"
    /\ customer' = [customer EXCEPT !.state = "done"] @@
                   [outcome |-> process_feedback(customer.feedback)]
    /\ CustomerUnchanged

(***************************************************************************)
(* app.py: one run of the Streamlit script per user event                  *)
(*                                                                         *)
(* Menu entries and package names are written in Latin letters.  A package *)
(* name is the sequence of its parts, so that str.replace can remove one.  *)
(***************************************************************************)
Menus == <<"home", "packages", "booking", "safety", "contact">>

pkg_moon == <<"tsuki-shuuyuu", "ko-su">>

pkg_mars == <<"kasei-tanken", "ko-su">>

pkg_station == <<"uchuu-sute-shon", "taizai">>

\* The keys of the packages dict of the package page, in order.
PackageNames == <<pkg_moon, pkg_mars, pkg_station>>

\* The options of the package selectbox of the booking form.
FormPackages == <<pkg_moon, pkg_mars, pkg_station>>

\* The options of the class selectbox.
FormClasses == {<<"ekonomi-">>, <<"bijinesu">>, <<"fa-suto">>}

MinDepartureDays == 30

MaxDepartureDays == 365

MinPassengers == 1

MaxFormPassengers == 4

\* Values the date and number widgets can return: within their limits.
DepartureInputs == {MinDepartureDays, 200, MaxDepartureDays}

FormPassengerInputs == MinPassengers..MaxFormPassengers

\* str.replace(part, "")
Replace(s, part) == SelectSeq(s, LAMBDA x : x # part)

\* The days dict of the booking form.
days_of(selected_package) ==
    CASE selected_package = pkg_moon -> 3
      [] selected_package = pkg_mars -> 30
      [] selected_package = pkg_station -> 5

\* The names a run of the script has bound when it executes the branch of
\* the menu: packages is assigned in the branch of the package page only.
BoundNames(menu) == IF menu = "packages" THEN {"packages"} ELSE {}

NoQuote == [state |-> "none"]

NoSubmit == [submitted |-> FALSE]

\* One run of the script with the sidebar at menu, the session state ss and
\* the form submitted or not: what the page shows.
Render(menu, ss, submit) ==
    IF menu # "booking"
    THEN [menu |-> menu, error |-> "none", form |-> FALSE,
          confirm_button |-> FALSE,
          preselected |-> << >>, quote |-> NoQuote]
    ELSE IF "selected_package" \in DOMAIN ss /\ "packages" \notin BoundNames(menu)
    THEN [menu |-> menu, error |-> "NameError", form |-> FALSE,
          confirm_button |-> FALSE,
          preselected |-> << >>, quote |-> NoQuote]
    ELSE LET index == IF "selected_package" \notin DOMAIN ss
                      THEN 1
                      ELSE CHOOSE i \in 1..Len(PackageNames) :
                               PackageNames[i] = ss["selected_package"]
         IN  IF ~submit.submitted
             THEN [menu |-> menu, error |-> "none", form |-> TRUE,
                   confirm_button |-> FALSE,
                   preselected |-> FormPackages[index], quote |-> NoQuote]
             ELSE \* the quote is shown, then st.button is called inside the
                  \* form, which Streamlit refuses: the confirm button is not
                  \* drawn and the lines after it (booking_agent.run) not run
                  [menu |-> menu, error |-> "StreamlitAPIException", form |-> TRUE,
                   confirm_button |-> FALSE,
                   preselected |-> FormPackages[index],
                   quote |->
                      [state |-> "shown",
                       package |-> submit.package,
                       departure |-> submit.departure,
                       passengers |-> submit.passengers,
                       class |-> submit.class,
                       total_price |->
                          calculate_price(
                              Replace(Replace(submit.package, "ko-su"), "taizai"),
                              days_of(submit.package), submit.class,
                              submit.passengers).value]]

\* The attributes of the booking_agent object (a phi Agent built with the
\* keyword arguments of booking_agent.py).
BookingAgentAttributes ==
    {"name", "role", "model", "tools", "instructions", "markdown", "run",
     "print_response"}

\* booking_agent.<name>(...): AttributeError for a name the object lacks.
booking_agent_call(name) ==
    IF name \notin BookingAgentAttributes
    THEN [kind |-> "raise", exc |-> "AttributeError"]
    ELSE [kind |-> "return", value |-> "response"]

\* Departure dates (days from now) and passenger lists (ages) to validate.
DateInputs == {-1, 7, 30}

PassengerListInputs == { <<30, 28>>, <<30, 30, 30, 30, 30>>, <<30, 15>> }

NoValidation == [op |-> "none"]

BookingInit ==
    /\ widgets = [menu |-> "home"]
    /\ session_state = << >>
    /\ page = Render("home", << >>, NoSubmit) @@ [event |-> "load"]
    /\ validation = NoValidation

BookingUnchanged ==
    UNCHANGED <<price, health, notifier, lastAlert, active_sessions, ACTIVE_USERS,
                ERRORS_TOTAL, schemaVars, toolVars,
                monitorVars, paymentVars, customerVars>>

\* The user picks an entry of the sidebar menu; the script runs again.
SelectMenu ==
    \E i \in 1..Len(Menus) :
        /\ widgets' = [widgets EXCEPT !.menu = Menus[i]]
        /\ page' = Render(Menus[i], session_state, NoSubmit) @@ [event |-> "menu"]
        /\ UNCHANGED <<session_state, validation>>
        /\ BookingUnchanged

\* The user presses the reserve button of a package: the two session-state
\* assignments, then st.experimental_rerun(); the sidebar keeps its value.
PressReserve ==
    \E i \in 1..Len(PackageNames) :
        /\ page.menu = "packages"
        /\ session_state' = ("selected_package" :> PackageNames[i])
                            @@ ("menu" :> "booking") @@ session_state
        /\ page' = Render(widgets.menu, session_state', NoSubmit)
                   @@ [event |-> "reserve"]
        /\ UNCHANGED <<widgets, validation>>
        /\ BookingUnchanged

\* The user fills the booking form in and presses the quote button.
SubmitQuote ==
    \E i \in 1..Len(FormPackages), d \in DepartureInputs,
       n \in FormPassengerInputs, c \in FormClasses :
        /\ page.menu = "booking"
        /\ page.form
        /\ page' = Render(widgets.menu, session_state,
                          [submitted |-> TRUE, package |-> FormPackages[i],
                           departure |-> d, passengers |-> n, class |-> c])
                   @@ [event |-> "submit"]
        /\ UNCHANGED <<widgets, session_state, validation>>
        /\ BookingUnchanged

\* booking_agent.validate_dates(date), as the tests call it.
ValidateDates ==
    \E d \in DateInputs :
        /\ validation' = [op |-> "validate_dates", days_ahead |-> d,
                          outcome |-> booking_agent_call("validate_dates")]
        /\ UNCHANGED <<widgets, session_state, page>>
        /\ BookingUnchanged

\* booking_agent.validate_passengers(passengers), as the tests call it.
ValidatePassengers ==
    \E ages \in PassengerListInputs :
        /\ validation' = [op |-> "validate_passengers", ages |-> ages,
                          outcome |-> booking_agent_call("validate_passengers")]
        /\ UNCHANGED <<widgets, session_state, page>>
        /\ BookingUnchanged

(***************************************************************************)
(* migrations/versions/001_initial.py on a PostgreSQL database             *)
(*                                                                         *)
(* The database is the set of its tables and the number of rows of each.   *)
(* A migration runs in one transaction (env.py), statement by statement;   *)
(* a statement the database refuses ends it and rolls the transaction back.*)
(***************************************************************************)
MaxRows == 2

SchemaTables ==
    {"users", "bookings", "training_records", "health_records", "payments"}

\* The tables the ForeignKeyConstraint of a table refers to.
foreign_keys(t) ==
    CASE t = "bookings" -> {"users"}
      [] t = "training_records" -> {"users"}
      [] t = "health_records" -> {"users"}
      [] t = "payments" -> {"bookings"}
      [] OTHER -> {}

\* The op.create_table statements of upgrade(), in order.
upgrade_ops ==
    <<"users", "bookings", "training_records", "health_records", "payments">>

\* The drop statements with the users table dropped first.
downgrade_ops_users_first ==
    <<"users", "payments", "health_records", "training_records", "bookings">>

\* The op.drop_table statements of downgrade(), in order.
downgrade_ops ==
    <<"payments", "health_records", "training_records", "bookings", "users">>

\* CREATE TABLE t: refused when t exists or a referenced table is missing.
create_table(db, t) ==
    IF t \in db \/ ~(foreign_keys(t) \subseteq db)
    THEN [ok |-> FALSE]
    ELSE [ok |-> TRUE, tables |-> db \cup {t}]

\* DROP TABLE t: refused when t is missing or another table refers to it.
drop_table(db, t) ==
    IF t \notin db \/ (\E u \in db \ {t} : t \in foreign_keys(u))
    THEN [ok |-> FALSE]
    ELSE [ok |-> TRUE, tables |-> db \ {t}]

NoMigration == [op |-> "idle", last |-> "none", failed |-> FALSE]

NoRows == [t \in SchemaTables |-> 0]

SchemaInit ==
    /\ tables = {}
    /\ rows = NoRows
    /\ alembic_version = "none"
    /\ migration = NoMigration

SchemaUnchanged ==
    UNCHANGED <<price, health, notifier, lastAlert, active_sessions, ACTIVE_USERS,
                ERRORS_TOTAL, toolVars, monitorVars, paymentVars, customerVars,
                bookingVars>>

\* A transaction that runs the statements of op from the first one on.
Begin(op) ==
    [op |-> op, step |-> 1, last |-> migration.last, failed |-> FALSE,
     saved_tables |-> tables, saved_rows |-> rows]

\* The transaction is rolled back after a refused statement.
RolledBack == [op |-> "idle", last |-> migration.last, failed |-> TRUE]

Committed(op) == [op |-> "idle", last |-> op, failed |-> FALSE]

\* alembic upgrade on a database without the revision.
BeginUpgrade ==
    /\ migration.op = "idle"
    /\ alembic_version = "none"
    /\ migration' = Begin("upgrade")
    /\ UNCHANGED <<tables, rows, alembic_version>>
    /\ SchemaUnchanged

\* The next op.create_table of upgrade().
UpgradeStep ==
    /\ migration.op = "upgrade"
    /\ LET r == create_table(tables, upgrade_ops[migration.step])
       IN  IF ~r.ok
           THEN /\ tables' = migration.saved_tables
                /\ rows' = migration.saved_rows
                /\ migration' = RolledBack
                /\ UNCHANGED alembic_version
           ELSE /\ tables' = r.tables
                /\ UNCHANGED rows
                /\ IF migration.step = Len(upgrade_ops)
                   THEN /\ migration' = Committed("upgrade")
                        /\ alembic_version' = "001"
                   ELSE /\ migration' = [migration EXCEPT !.step = @ + 1]
                        /\ UNCHANGED alembic_version
    /\ SchemaUnchanged

\* alembic downgrade on a database at revision 001.
BeginDowngrade ==
    /\ migration.op = "idle"
    /\ alembic_version = "001"
    /\ migration' = Begin("downgrade")
    /\ UNCHANGED <<tables, rows, alembic_version>>
    /\ SchemaUnchanged

\* The next op.drop_table of downgrade(); the rows go with the table.
DowngradeStep ==
    /\ migration.op = "downgrade"
    /\ LET t == downgrade_ops[migration.step]
           r == drop_table(tables, t)
       IN  IF ~r.ok
           THEN /\ tables' = migration.saved_tables
                /\ rows' = migration.saved_rows
                /\ migration' = RolledBack
                /\ UNCHANGED alembic_version
           ELSE /\ tables' = r.tables
                /\ rows' = [rows EXCEPT ![t] = 0]
                /\ IF migration.step = Len(downgrade_ops)
                   THEN /\ migration' = Committed("downgrade")
                        /\ alembic_version' = "none"
                   ELSE /\ migration' = [migration EXCEPT !.step = @ + 1]
                        /\ UNCHANGED alembic_version
    /\ SchemaUnchanged

\* The application inserts a row; a foreign key needs a row to refer to.
InsertRow ==
    \E t \in tables :
        /\ migration.op = "idle"
        /\ rows[t] < MaxRows
        /\ \A r \in foreign_keys(t) : rows[r] > 0
        /\ rows' = [rows EXCEPT ![t] = @ + 1]
        /\ UNCHANGED <<tables, alembic_version, migration>>
        /\ SchemaUnchanged

\* The application deletes a row no row of another table refers to.
DeleteRow ==
    \E t \in tables :
        /\ migration.op = "idle"
        /\ rows[t] > 0
        /\ rows[t] > 1 \/ \A u \in tables : t \in foreign_keys(u) => rows[u] = 0
        /\ rows' = [rows EXCEPT ![t] = @ - 1]
        /\ UNCHANGED <<tables, alembic_version, migration>>
        /\ SchemaUnchanged

(***************************************************************************)
(* payment_processor.PaymentProcessor.calculate_total                      *)
(*                                                                         *)
(* Prices are whole yen; the amounts the function returns are in           *)
(* thousandths of a yen, the rates in thousandths, so that 5% and 10% of   *)
(* them are whole numbers.                                                 *)
(***************************************************************************)
Milli == 1000

\* self.tax_rate = 0.10
tax_rate == 100

FullDiscount == 50

PaymentPlans == {"full", "split", "deposit"}

\* The discounts with the 5% given to the split plan.
payment_plans_discount_split(plan) ==
    CASE plan = "full" -> 0
      [] plan = "split" -> FullDiscount
      [] plan = "deposit" -> 0

\* self.payment_plans[plan]["discount"]
payment_plans_discount(plan) ==
    CASE plan = "full" -> FullDiscount
      [] plan = "split" -> 0
      [] plan = "deposit" -> 0

\* calculate_total(base_price, passengers, payment_plan)
calculate_total(base_price, passengers, payment_plan) ==
    IF payment_plan \notin PaymentPlans
    THEN [kind |-> "raise", exc |-> "KeyError"]
    ELSE LET subtotal == base_price * passengers * Milli
             discount == (subtotal * payment_plans_discount(payment_plan)) \div Milli
             tax == ((subtotal - discount) * tax_rate) \div Milli
         IN  [kind |-> "return",
              value |-> [subtotal |-> subtotal, discount |-> discount,
                         tax |-> tax, total |-> subtotal - discount + tax]]

BasePriceInputs == {-100, 0, 1, 100, 2500}

TotalPassengerInputs == (-1)..MaxPassengers

PlanInputs == PaymentPlans \cup {"installment"}

TotalInit ==
    \E b \in BasePriceInputs, n \in TotalPassengerInputs, pl \in PlanInputs :
        total = [state |-> "called", base_price |-> b, passengers |-> n,
                 payment_plan |-> pl]

ToolsUnchanged ==
    UNCHANGED <<price, health, notifier, lastAlert, active_sessions, ACTIVE_USERS,
                ERRORS_TOTAL, schemaVars, monitorVars, paymentVars, customerVars,
                bookingVars>>

\* One call of calculate_total on the pending arguments.
CalculateTotal ==
    /\ total.state = "called"
    /\ total' = [total EXCEPT !.state = "done"] @@
                [outcome |-> calculate_total(total.base_price, total.passengers,
                                             total.payment_plan)]
    /\ UNCHANGED <<training, weather, launch>>
    /\ ToolsUnchanged

(***************************************************************************)
(* training_simulator.TrainingSimulator.create_training_schedule           *)
(*                                                                         *)
(* A date is a day number, a timedelta a number of days.                   *)
(***************************************************************************)
MaxListLen == 2

MaxModules == 9

\* The members of TrainingType, in the order of the enum.
TrainingTypes ==
    <<"zero_gravity", "emergency", "spacecraft", "health", "communication">>

\* self.training_programs[t]["duration_days"]
duration_days(t) ==
    CASE t = "zero_gravity" -> 5
      [] t = "emergency" -> 3
      [] t = "spacecraft" -> 7
      [] t = "health" -> 2
      [] t = "communication" -> 1

RECURSIVE SumDuration(_)
\* sum(self.training_programs[t]["duration_days"] for t in training_types)
SumDuration(training_types) ==
    IF training_types = << >>
    THEN 0
    ELSE duration_days(Head(training_types)) + SumDuration(Tail(training_types))

RECURSIVE TrainingModules(_, _)
\* The loop over training_types, with current_date at the first of them.
TrainingModules(training_types, current_date) ==
    IF training_types = << >>
    THEN << >>
    ELSE LET d == duration_days(Head(training_types))
         IN  << [type |-> Head(training_types), start_date |-> current_date,
                 end_date |-> current_date + d, duration_days |-> d] >>
             \o TrainingModules(Tail(training_types), current_date + d + 1)

\* create_training_schedule(trainee_name, departure_date, training_types)
create_training_schedule(departure_date, training_types) ==
    LET total_days == SumDuration(training_types)
        start_date == departure_date - (total_days + 14)
    IN  [start_date |-> start_date,
         end_date |-> departure_date - 7,
         departure_date |-> departure_date,
         training_modules |-> TrainingModules(training_types, start_date)]

\* The types taken in turn, n of them.
RepeatedTypes(n) ==
    [i \in 1..n |-> TrainingTypes[((i - 1) % Len(TrainingTypes)) + 1]]

\* Lists of training types: every short list, and the types taken in turn.
TrainingListInputs ==
    UNION { [1..n -> {TrainingTypes[i] : i \in 1..Len(TrainingTypes)}] :
                n \in 0..MaxListLen }
    \cup { RepeatedTypes(n) : n \in 0..MaxModules }

DepartureDateInputs == {60, 100}

TrainingInit ==
    \E d \in DepartureDateInputs, l \in TrainingListInputs :
        training = [state |-> "called", departure_date |-> d, training_types |-> l]

\* One call of create_training_schedule on the pending arguments.
CreateTrainingSchedule ==
    /\ training.state = "called"
    /\ training' = [training EXCEPT !.state = "done"] @@
                   [schedule |-> create_training_schedule(training.departure_date,
                                                          training.training_types)]
    /\ UNCHANGED <<total, weather, launch>>
    /\ ToolsUnchanged

(***************************************************************************)
(* space_weather.SpaceWeatherTool                                          *)
(***************************************************************************)
\* self.activity_levels and self.risk_levels
activity_levels == <<"low", "moderate", "high", "extreme">>

risk_levels == <<"minimal", "low", "moderate", "high", "severe">>

\* The three recommendations, transliterated.
RecommendPostpone ==
    "genzai, uchuu tenkou ga fuantei desu. uchuu ryokou no enki wo osusume shimasu."

RecommendCaution ==
    "uchuu tenkou wa chuui ga hitsuyou desu ga, taisaku wo koujireba uchuu ryokou wa kanou desu."

RecommendStable ==
    "genzai no uchuu tenkou wa antei shite ori, uchuu ryokou ni tekishite imasu."

\* get_weather_recommendation(solar_activity, radiation_level, meteoroid_risk)
get_weather_recommendation(solar_activity, radiation_level, meteoroid_risk) ==
    IF \/ "high" \in {solar_activity, radiation_level}
       \/ meteoroid_risk \in {"high", "severe"}
    THEN RecommendPostpone
    ELSE IF "moderate" \in {solar_activity, radiation_level, meteoroid_risk}
    THEN RecommendCaution
    ELSE RecommendStable

\* get_full_weather_report(), given the three values random.choice draws.
get_full_weather_report(solar, radiation, meteoroid) ==
    [timestamp |-> "now", solar_activity |-> solar, radiation_level |-> radiation,
     meteoroid_risk |-> meteoroid,
     recommendation |-> get_weather_recommendation(solar, radiation, meteoroid),
     valid_hours |-> 24]

Levels(list) == {list[i] : i \in 1..Len(list)}

WeatherInit ==
    \/ \E so \in Levels(activity_levels), ra \in Levels(activity_levels),
          me \in Levels(risk_levels) :
           weather = [state |-> "called", op |-> "get_weather_recommendation",
                      solar_activity |-> so, radiation_level |-> ra,
                      meteoroid_risk |-> me]
    \/ weather = [state |-> "called", op |-> "get_full_weather_report"]

\* One call of get_weather_recommendation on the pending arguments.
GetWeatherRecommendation ==
    /\ weather.state = "called"
    /\ weather.op = "get_weather_recommendation"
    /\ weather' = [weather EXCEPT !.state = "done"] @@
                  [recommendation |->
                      get_weather_recommendation(weather.solar_activity,
                                                 weather.radiation_level,
                                                 weather.meteoroid_risk)]
    /\ UNCHANGED <<total, training, launch>>
    /\ ToolsUnchanged

\* One call of get_full_weather_report: the three getters draw at random.
GetFullWeatherReport ==
    /\ weather.state = "called"
    /\ weather.op = "get_full_weather_report"
    /\ \E so \in Levels(activity_levels), ra \in Levels(activity_levels),
          me \in Levels(risk_levels) :
           LET report == get_full_weather_report(so, ra, me)
           IN  weather' = [state |-> "done", op |-> weather.op,
                           solar_activity |-> report.solar_activity,
                           radiation_level |-> report.radiation_level,
                           meteoroid_risk |-> report.meteoroid_risk,
                           recommendation |-> report.recommendation]
    /\ UNCHANGED <<total, training, launch>>
    /\ ToolsUnchanged

(***************************************************************************)
(* space_map.SpaceMapTool.get_next_launch_window                           *)
(*                                                                         *)
(* A datetime is a number of hours counted from 2022-09-01 00:00, negative *)
(* before it.                                                              *)
(***************************************************************************)
HoursPerDay == 24

CycleDays == 780

HalfDayHours == 12

\* (start_date - datetime(2022, 9, 1)).days
DaysSinceReference(start_date) == start_date \div HoursPerDay

\* get_next_launch_window(destination, start_date)
get_next_launch_window(destination, start_date) ==
    IF destination = "mars"
    THEN LET days_until_window ==
                 CycleDays - (DaysSinceReference(start_date) % CycleDays)
         IN  start_date + days_until_window * HoursPerDay
    ELSE IF destination = "moon"
    THEN start_date
    ELSE start_date + HalfDayHours

LaunchDestinationInputs == {"mars", "moon", "iss", "venus"}

\* Start days around the reference date and around the windows after it.
StartDayInputs == {-781, -780, -1, 0, 1, 779, 780, 781, 1560}

StartHourInputs == {0, 6}

LaunchInit ==
    \E dest \in LaunchDestinationInputs, d \in StartDayInputs, h \in StartHourInputs :
        launch = [state |-> "called", destination |-> dest,
                  start_date |-> d * HoursPerDay + h]

\* One call of get_next_launch_window on the pending arguments.
GetNextLaunchWindow ==
    /\ launch.state = "called"
    /\ launch' = [launch EXCEPT !.state = "done"] @@
                 [window |-> get_next_launch_window(launch.destination,
                                                    launch.start_date)]
    /\ UNCHANGED <<total, training, weather>>
    /\ ToolsUnchanged

(***************************************************************************)
(* Specifications                                                          *)
(***************************************************************************)
PriceIdle == price = NoCall

HealthIdle == health = NoCall

NotifierIdle == notifier = IdleNotifier /\ lastAlert = NoAlert

PaymentIdle == payment = NoCall

CustomerIdle == customer = NoCall

TotalIdle == total = NoCall

TrainingIdle == training = NoCall

WeatherIdle == weather = NoCall

MapIdle == launch = NoCall

\* The initial state of every subsystem but the named ones.
IdleBut(active) ==
    /\ "price" \in active \/ PriceIdle
    /\ "health" \in active \/ HealthIdle
    /\ "notifier" \in active \/ NotifierIdle
    /\ "payment" \in active \/ PaymentIdle
    /\ "customer" \in active \/ CustomerIdle
    /\ "monitor" \in active \/ MonitorInit
    /\ "booking" \in active \/ BookingInit
    /\ "schema" \in active \/ SchemaInit
    /\ "total" \in active \/ TotalIdle
    /\ "training" \in active \/ TrainingIdle
    /\ "weather" \in active \/ WeatherIdle
    /\ "map" \in active \/ MapIdle
    /\ MetricsInit

PriceSpecInit == PriceInit /\ IdleBut({"price"})

PriceNext == CalculatePrice

PriceSpec == PriceSpecInit /\ [][PriceNext]_vars

HealthSpecInit == HealthInit /\ IdleBut({"health"})

HealthNext == CheckHealthRequirements

HealthSpec == HealthSpecInit /\ [][HealthNext]_vars

NotifierSpecInit == NotifierInit /\ IdleBut({"notifier"})

NotifierNext ==
    \/ BroadcastAlert
    \/ SendEmailAlert
    \/ SendSlackAlert
    \/ SendLineAlert
    \/ SendDiscordAlert

NotifierSpec == NotifierSpecInit /\ [][NotifierNext]_vars

MetricsSpecInit == IdleBut({})

MetricsNext ==
    \/ StartUserSession
    \/ EndUserSession
    \/ RecordError

MetricsSpec == MetricsSpecInit /\ [][MetricsNext]_vars

MonitorSpecInit == MonitorInit /\ IdleBut({"monitor"})

WorkerTestStep == \E w \in 1..Len(workers) : WorkerTest(w)

WorkerPollStep == \E w \in 1..Len(workers) : WorkerPoll(w)

WorkerSleepStep == \E w \in 1..Len(workers) : WorkerSleep(w)

MonitorNext ==
    \/ AddAlertCallback
    \/ StartMonitoring
    \/ StopMonitoring
    \/ CheckSystemResources
    \/ WorkerTestStep
    \/ WorkerPollStep
    \/ WorkerSleepStep

MonitorSpec == MonitorSpecInit /\ [][MonitorNext]_vars

\* The polling workers alone: start, stop and the steps of the loop.
LoopNext ==
    \/ StartMonitoring
    \/ StopMonitoring
    \/ WorkerTestStep
    \/ WorkerPollStep
    \/ WorkerSleepStep

LoopSpec == MonitorSpecInit /\ [][LoopNext]_vars

\* The callback list and direct calls of alert, without the workers.
AlertNext == AddAlertCallback \/ Alert

AlertSpec == MonitorSpecInit /\ [][AlertNext]_vars

PaymentSpecInit == PaymentInit /\ IdleBut({"payment"})

PaymentNext == ProcessPayment \/ ProcessRefund

PaymentSpec == PaymentSpecInit /\ [][PaymentNext]_vars

CustomerSpecInit == CustomerInit /\ IdleBut({"customer"})

CustomerNext == HandleInquiry \/ ProcessFeedback

CustomerSpec == CustomerSpecInit /\ [][CustomerNext]_vars

BookingSpecInit == BookingInit /\ IdleBut({"booking"})

BookingNext ==
    \/ SelectMenu
    \/ PressReserve
    \/ SubmitQuote
    \/ ValidateDates
    \/ ValidatePassengers

BookingSpec == BookingSpecInit /\ [][BookingNext]_vars

SchemaSpecInit == SchemaInit /\ IdleBut({"schema"})

SchemaNext ==
    \/ BeginUpgrade
    \/ UpgradeStep
    \/ BeginDowngrade
    \/ DowngradeStep
    \/ InsertRow
    \/ DeleteRow

SchemaSpec == SchemaSpecInit /\ [][SchemaNext]_vars

TotalSpecInit == TotalInit /\ IdleBut({"total"})

TotalNext == CalculateTotal

TotalSpec == TotalSpecInit /\ [][TotalNext]_vars

TrainingSpecInit == TrainingInit /\ IdleBut({"training"})

TrainingNext == CreateTrainingSchedule

TrainingSpec == TrainingSpecInit /\ [][TrainingNext]_vars

WeatherSpecInit == WeatherInit /\ IdleBut({"weather"})

WeatherNext == GetWeatherRecommendation \/ GetFullWeatherReport

WeatherSpec == WeatherSpecInit /\ [][WeatherNext]_vars

MapSpecInit == LaunchInit /\ IdleBut({"map"})

MapNext == GetNextLaunchWindow

MapSpec == MapSpecInit /\ [][MapNext]_vars

\* The whole program: every subsystem constructed, any operation next.
Init ==
    /\ PriceInit /\ HealthInit /\ NotifierInit /\ MetricsInit /\ MonitorInit
    /\ PaymentInit /\ CustomerInit /\ BookingInit /\ SchemaInit
    /\ TotalInit /\ TrainingInit /\ WeatherInit /\ LaunchInit

Next ==
    \/ PriceNext \/ HealthNext \/ NotifierNext \/ MetricsNext
    \/ MonitorNext \/ AlertNext \/ PaymentNext \/ CustomerNext \/ BookingNext
    \/ SchemaNext \/ TotalNext \/ TrainingNext \/ WeatherNext \/ MapNext

Spec == Init /\ [][Next]_vars

(***************************************************************************)
(* Properties                                                              *)
(***************************************************************************)
\* Two strings that differ at most in the case of their letters.
SameIgnoringCase(a, b) ==
    /\ Len(a) = Len(b)
    /\ \A i \in 1..Len(a) :
          \/ a[i] = b[i]
          \/ \E j \in 1..Len(UpperLetters) :
                {a[i], b[i]} = {UpperLetters[j], LowerLetters[j]}

PriceDone == price.state = "done"

KnownDestination(d) ==
    \/ SameIgnoringCase(d, s_moon)
    \/ SameIgnoringCase(d, s_mars)
    \/ SameIgnoringCase(d, s_space_station)

\* The base price the price table promises for a destination.
StatedBase(d) ==
    IF SameIgnoringCase(d, s_mars) THEN 5000000
    ELSE IF SameIgnoringCase(d, s_space_station) THEN 800000
    ELSE 1000000

\* Twice the multiplier the package table promises (1.0, 1.5, 2.0).
StatedDoubleMultiplier(p) ==
    IF SameIgnoringCase(p, s_business) THEN 3
    ELSE IF SameIgnoringCase(p, s_first) THEN 4
    ELSE 2

TierRank(p) ==
    IF SameIgnoringCase(p, s_economy) THEN 1
    ELSE IF SameIgnoringCase(p, s_business) THEN 2
    ELSE IF SameIgnoringCase(p, s_first) THEN 3
    ELSE 0

\* C2: for a fixed destination and non-negative days and passengers the price
\* does not decrease when the days, the passengers or the package tier grow,
\* the other arguments held fixed.
C2_PriceMonotone ==
    (PriceDone /\ price.days >= 0 /\ price.passengers >= 0) =>
        /\ \A n \in DayInputs :
              n >= price.days =>
                 calculate_price(price.destination, n, price.package_type,
                                 price.passengers).value >= price.outcome.value
        /\ \A k \in PassengerInputs :
              k >= price.passengers =>
                 calculate_price(price.destination, price.days, price.package_type,
                                 k).value >= price.outcome.value
        /\ \A p \in PackageInputs :
              (TierRank(price.package_type) > 0
                 /\ TierRank(p) >= TierRank(price.package_type)) =>
                 calculate_price(price.destination, price.days, p,
                                 price.passengers).value >= price.outcome.value

\* A business-class price that lies strictly between the economy and the
\* first-class price of the same trip, and below that of a longer trip.
C2_Witness ==
    /\ PriceDone
    /\ price.days = 2
    /\ price.passengers = 2
    /\ TierRank(price.package_type) = 2
    /\ calculate_price(price.destination, 2, s_economy, 2).value < price.outcome.value
    /\ calculate_price(price.destination, 2, s_first, 2).value > price.outcome.value
    /\ calculate_price(price.destination, 3, price.package_type, 2).value
          > price.outcome.value

\* C3: calculate_price raises ValueError when the destination is not one of
\* the known destinations, instead of returning a price.
C3_UnknownDestinationRaises ==
    (PriceDone /\ ~KnownDestination(price.destination)) =>
        /\ price.outcome.kind = "raise"
        /\ price.outcome.exc = "ValueError"

HealthDone == health.state = "done"

RequiredFields ==
    {"blood_pressure", "heart_condition", "bone_density", "inner_ear", "vision"}

ReturnsBool(outcome, b) == outcome.kind = "return" /\ outcome.value = b

CompleteHistory(mh) ==
    /\ RequiredFields \subseteq DOMAIN mh
    /\ DOMAIN mh["blood_pressure"] = {"systolic", "diastolic"}

\* C5: for a history with all required fields (and a blood pressure reading
\* with its two values) the check returns False when the systolic value
\* exceeds 140 or the diastolic value exceeds 90, and True otherwise.
C5_BloodPressureThresholds ==
    (HealthDone /\ CompleteHistory(health.medical_history)) =>
        LET bp == health.medical_history["blood_pressure"]
        IN  IF bp["systolic"] > 140 \/ bp["diastolic"] > 90
            THEN ReturnsBool(health.outcome, FALSE)
            ELSE ReturnsBool(health.outcome, TRUE)

\* A complete history with a blood pressure of exactly 140/90 passes.
C5_Witness ==
    /\ HealthDone
    /\ CompleteHistory(health.medical_history)
    /\ health.medical_history["blood_pressure"] = [systolic |-> 140, diastolic |-> 90]
    /\ ReturnsBool(health.outcome, TRUE)

\* C6: a history with the fields of the tests' healthy record (blood_pressure,
\* heart_rate, bone_density, inner_ear, vision) and a blood pressure within
\* the thresholds meets the requirements.
C6_TestRecordIsHealthy ==
    (/\ HealthDone
     /\ {"blood_pressure", "heart_rate", "bone_density", "inner_ear", "vision"}
           \subseteq DOMAIN health.medical_history
     /\ DOMAIN health.medical_history["blood_pressure"] = {"systolic", "diastolic"}
     /\ health.medical_history["blood_pressure"]["systolic"] <= 140
     /\ health.medical_history["blood_pressure"]["diastolic"] <= 90) =>
        ReturnsBool(health.outcome, TRUE)

Broadcast == lastAlert.op = "broadcast_alert"

\* The channels a broadcast is configured for: e-mail by a non-empty list of
\* recipients, the others by their setting.
IsSet(o) == o # None /\ o # Some("")

ConfiguredChannels ==
    (IF lastAlert.recipients # None /\ lastAlert.recipients # Some(<< >>)
     THEN {"email"} ELSE {})
    \cup (IF IsSet(notifier.slack_webhook) THEN {"slack"} ELSE {})
    \cup (IF IsSet(notifier.line_token) THEN {"line"} ELSE {})
    \cup (IF IsSet(notifier.discord_webhook) THEN {"discord"} ELSE {})

CalledChannels == {lastAlert.calls[i].channel : i \in 1..Len(lastAlert.calls)}

\* C7: broadcast_alert returns a mapping with exactly one Boolean entry per
\* configured channel, and an unconfigured channel receives no outbound call.
C7_OneEntryPerConfiguredChannel ==
    Broadcast =>
        /\ DOMAIN lastAlert.results = ConfiguredChannels
        /\ \A c \in DOMAIN lastAlert.results : lastAlert.results[c] \in BOOLEAN
        /\ CalledChannels \subseteq ConfiguredChannels

\* A broadcast with recipients and a LINE token, an empty Slack webhook and
\* no Discord webhook: entries and calls for e-mail and LINE only.
C7_Witness ==
    /\ Broadcast
    /\ notifier.slack_webhook = Some("")
    /\ notifier.discord_webhook = None
    /\ DOMAIN lastAlert.results = {"email", "line"}
    /\ CalledChannels = {"email", "line"}

ConfiguredInOrder ==
    SelectSeq(<<"email", "slack", "line", "discord">>,
              LAMBDA c : c \in ConfiguredChannels)

\* C8: within one broadcast every configured channel is attempted exactly
\* once, in the order email, Slack, LINE, Discord, whatever the earlier
\* channels did, and the result of a channel is that of its own attempt.
C8_EachChannelOnceInOrder ==
    Broadcast =>
        /\ [i \in 1..Len(lastAlert.calls) |-> lastAlert.calls[i].channel]
              = ConfiguredInOrder
        /\ \A i \in 1..Len(lastAlert.calls) :
              lastAlert.results[lastAlert.calls[i].channel]
                 = (lastAlert.calls[i].outcome = "ok")

\* Four configured channels, the e-mail fails, the three later ones are
\* still attempted and succeed.
C8_Witness ==
    /\ Broadcast
    /\ Len(lastAlert.calls) = 4
    /\ lastAlert.calls[1] = [channel |-> "email", outcome |-> "ConnectionError"]
    /\ lastAlert.results =
          [c \in {"email", "slack", "line", "discord"} |-> c # "email"]

SenderOps ==
    {"send_email_alert", "send_slack_alert", "send_line_alert", "send_discord_alert"}

\* C9: each sender makes one transport call, returns True when it completes
\* and False, without raising, when it fails; broadcast_alert never raises and
\* all its entries are True when every attempted transport call succeeds.
C9_SendersNeverRaise ==
    /\ lastAlert.op \in SenderOps =>
          /\ ~lastAlert.raised
          /\ Len(lastAlert.calls) = 1
          /\ lastAlert.result = (lastAlert.calls[1].outcome = "ok")
    /\ Broadcast =>
          /\ ~lastAlert.raised
          /\ (\A i \in 1..Len(lastAlert.calls) : lastAlert.calls[i].outcome = "ok")
                => \A c \in DOMAIN lastAlert.results : lastAlert.results[c]

\* A LINE alert whose request ends in an HTTP error status: False, no raise.
C9_Witness ==
    /\ lastAlert.op = "send_line_alert"
    /\ lastAlert.calls = << [channel |-> "line", outcome |-> "HTTPError"] >>
    /\ lastAlert.result = FALSE
    /\ ~lastAlert.raised

\* C10: after any sequence of start_user_session and end_user_session calls
\* the active-users gauge equals the number of users with an open session.
C10_GaugeCountsOpenSessions ==
    ACTIVE_USERS = Cardinality(active_sessions)

\* C11: check_system_resources returns a mapping with cpu_percent,
\* memory_percent and disk_percent holding the values the operating system
\* reports, whenever reading them succeeds.
C11_ResourcesReported ==
    (resourceCheck.state = "done" /\ resourceCheck.os.ok) =>
        /\ {"cpu_percent", "memory_percent", "disk_percent"}
              \subseteq DOMAIN resourceCheck.ret
        /\ resourceCheck.ret["cpu_percent"] = resourceCheck.os.cpu
        /\ resourceCheck.ret["memory_percent"] = resourceCheck.os.memory
        /\ resourceCheck.ret["disk_percent"] = resourceCheck.os.disk

\* The metrics of a reading that lie above their thresholds, as alert details.
ExceededMetrics(os) ==
    SelectSeq(<< [metric |-> "cpu_percent", value |-> os.cpu, threshold |-> 80],
                 [metric |-> "memory_percent", value |-> os.memory, threshold |-> 85],
                 [metric |-> "disk_percent", value |-> os.disk, threshold |-> 90] >>,
              LAMBDA d : d.value > d.threshold)

ResourceAlertsOf(poll) ==
    SelectSeq(poll.alerts, LAMBDA a : a.alert_type = "resource_threshold_exceeded")

\* C12: at every poll, each of the three metrics measured above its threshold
\* raises one resource_threshold_exceeded alert with the metric, its value
\* and its threshold, and every registered callback is invoked for it.
C12_AlertPerExceededMetric ==
    (lastPoll.state = "done" /\ lastPoll.os.ok) =>
        LET raised == ResourceAlertsOf(lastPoll)
            expected == ExceededMetrics(lastPoll.os)
        IN  /\ [i \in 1..Len(raised) |-> raised[i].details] = expected
            /\ \A i \in 1..Len(expected), c \in 1..lastPoll.n_callbacks :
                  \E j \in 1..Len(lastPoll.invocations) :
                      /\ lastPoll.invocations[j].callback = c
                      /\ lastPoll.invocations[j].details = expected[i]

\* C13: at most one polling worker is running the monitoring loop at any time.
C13_AtMostOneWorker == Cardinality(Running) <= 1

\* C14: a worker that was running when stop_monitoring was called leaves its
\* loop at its next test of the stop flag (after the current poll and sleep),
\* whatever was called in between.
C14_StoppedWorkerLeaves ==
    [][\A w \in 1..Len(workers) :
          (w \in stopPending /\ workers[w] = "test" /\ workers'[w] # "test")
             => workers'[w] = "done"]_vars

\* C15: when stop_monitoring has returned no polling worker is still running,
\* and no alert callback is invoked afterwards.
C15_StopJoinsWorker ==
    /\ lastCall = "stop_monitoring" => Running = {}
    /\ (lastPoll.state = "done" /\ lastPoll.after_stop) => lastPoll.invocations = << >>

\* C16: process_payment and process_refund make exactly one SDK call and
\* never raise: a failure of the call gives success False with the error and
\* the booking reference (the transaction id), a success gives success True
\* with the transaction (refund) id.
C16_PaymentNeverRaises ==
    payment.state = "done" =>
        /\ payment.outcome.sdk_calls = 1
        /\ payment.outcome.kind = "return"
        /\ payment.outcome.value.success = (payment.sdk.kind = "ok")
        /\ (payment.sdk.kind = "ok" /\ payment.op = "process_payment") =>
              payment.outcome.value.transaction_id = payment.sdk.id
        /\ (payment.sdk.kind = "ok" /\ payment.op = "process_refund") =>
              payment.outcome.value.refund_id = payment.sdk.id
        /\ (payment.sdk.kind = "raise" /\ payment.op = "process_payment") =>
              /\ payment.outcome.value.error = payment.sdk.exc
              /\ payment.outcome.value.booking_ref = payment.booking_ref
        /\ (payment.sdk.kind = "raise" /\ payment.op = "process_refund") =>
              /\ payment.outcome.value.error = payment.sdk.exc
              /\ payment.outcome.value.transaction_id = payment.transaction_id

FeedbackDone == customer.state = "done" /\ customer.op = "process_feedback"

\* C17: process_feedback reports the feedback as processed and marks a
\* follow-up as required, notifying the follow-up team, exactly when the
\* rating is 3 or below or the customer set response_required.
C17_FeedbackFollowUp ==
    FeedbackDone =>
        LET needed == \/ customer.feedback.rating <= 3
                      \/ customer.feedback.response_required
        IN  /\ ~customer.outcome.ret.is_none
            /\ customer.outcome.ret.value.processed
            /\ customer.outcome.ret.value.follow_up_required = needed
            /\ customer.outcome.notified = needed

InquiryDone == customer.state = "done" /\ customer.op = "handle_inquiry"

Contains(text, phrase) == \E i \in 1..Len(text) : text[i] = phrase

StatedHours(priority) ==
    IF priority = "high" THEN "1" ELSE IF priority = "medium" THEN "4" ELSE "24"

Returned(outcome, v) == outcome.kind = "return" /\ outcome.value = v

Raised(outcome, exc) == outcome.kind = "raise" /\ outcome.exc = exc

\* C19: date validation accepts a date 30 days ahead and raises ValueError for
\* an earlier one, passenger validation raises ValueError for more than 4
\* passengers or a minor, and no quote of the booking form is outside 1 to 4
\* passengers or a departure 30 to 365 days ahead.
C19_BookingValidated ==
    /\ validation.op = "validate_dates" =>
          IF validation.days_ahead >= 30
          THEN Returned(validation.outcome, TRUE)
          ELSE Raised(validation.outcome, "ValueError")
    /\ validation.op = "validate_passengers" =>
          IF /\ Len(validation.ages) \in 1..4
             /\ \A i \in 1..Len(validation.ages) : validation.ages[i] >= 18
          THEN Returned(validation.outcome, TRUE)
          ELSE Raised(validation.outcome, "ValueError")
    /\ page.quote.state = "shown" =>
          /\ page.quote.passengers \in 1..4
          /\ page.quote.departure \in 30..365

\* C20: after the reserve button of a package the next run shows the booking
\* page with that package preselected, and the booking page renders without
\* error in every session state reached in this way.
C20_ReserveOpensBooking ==
    /\ page.event = "reserve" =>
          /\ page.menu = "booking"
          /\ page.error = "none"
          /\ page.preselected = session_state["selected_package"]
    /\ (page.menu = "booking" /\ "selected_package" \in DOMAIN session_state) =>
          /\ page.error = "none"
          /\ page.preselected = session_state["selected_package"]


\* C21: on the booking page, once a quote has been computed by submitting the
\* form, the confirm button can be pressed and makes booking_agent.run handle
\* the quote: a page that shows a quote shows the confirm button and no error.
C21_ConfirmRunsAgent ==
    page.quote.state = "shown" => page.confirm_button /\ page.error = "none"

\* The base price and the class multiplier (in tenths) the quote of a package
\* is said to use.
QuoteBase(package) ==
    CASE package = pkg_moon -> 1000000
      [] package = pkg_mars -> 5000000
      [] package = pkg_station -> 800000

QuoteTenths(class) ==
    CASE class = <<"ekonomi-">> -> 10
      [] class = <<"bijinesu">> -> 15
      [] class = <<"fa-suto">> -> 20

\* C22: the quote of the booking form is the base price of the package's
\* destination, times 1 / 1.5 / 2 for economy / business / first class, times
\* the days of the package and the passengers.
C22_QuoteByClassAndBase ==
    page.quote.state = "shown" =>
        page.quote.total_price =
            (QuoteBase(page.quote.package) \div 10) * QuoteTenths(page.quote.class)
            * days_of(page.quote.package) * page.quote.passengers

\* C23: upgrade() creates every referenced table before the tables that refer
\* to it and downgrade() drops the tables in the reverse order; no statement
\* is refused, at every step every table an existing table refers to exists,
\* and a downgrade leaves none of the five tables.
C23_MigrationOrder ==
    /\ \A i \in 1..Len(upgrade_ops) :
          /\ \A r \in foreign_keys(upgrade_ops[i]) :
                \E j \in 1..(i - 1) : upgrade_ops[j] = r
          /\ downgrade_ops[i] = upgrade_ops[Len(upgrade_ops) + 1 - i]
    /\ \A t \in tables : foreign_keys(t) \subseteq tables
    /\ ~migration.failed
    /\ (migration.op = "idle" /\ migration.last = "downgrade") =>
           tables \cap SchemaTables = {}

\* A downgrade after an upgrade has dropped every table but users, which
\* still holds rows.
C23_Witness ==
    /\ migration.op = "downgrade"
    /\ migration.step = Len(downgrade_ops)
    /\ tables = {"users"}
    /\ rows["users"] > 0

\* C24: alert(alert_type, details) invokes every registered callback exactly
\* once, in registration order, with the alert_type and details it was given,
\* whether or not an earlier callback raised.
C24_AlertInvokesEveryCallback ==
    alertCall.state = "done" =>
        /\ Len(alertCall.invocations) = Len(alertCall.callbacks)
        /\ \A i \in 1..Len(alertCall.invocations) :
              /\ alertCall.invocations[i].callback = i
              /\ alertCall.invocations[i].alert_type = alertCall.alert_type
              /\ alertCall.invocations[i].details = alertCall.details

\* alert was called with two callbacks registered, the first of which raises.
C24_Witness ==
    /\ alertCall.state = "done"
    /\ alertCall.callbacks = <<"raises", "ok">>
    /\ alertCall.invocations[1].raised

\* The iteration of the last poll raised an exception into the except clause
\* of the loop.
IterationRaised(poll) ==
    /\ poll.state = "done"
    /\ \E i \in 1..Len(poll.errors) : poll.errors[i] = "monitoring_loop_error"

\* C25: an exception raised inside an iteration of the monitoring loop is
\* counted as one 'monitoring_loop_error' and does not end the worker: after
\* the iteration the worker sleeps, after the sleep it tests the stop flag, and
\* it leaves the loop only at a test that finds the flag set.
C25_LoopSurvivesException ==
    [][\A w \in 1..Len(workers) :
          /\ (workers[w] = "poll" /\ workers'[w] # "poll") =>
                /\ workers'[w] = "sleep"
                /\ IterationRaised(lastPoll') =>
                       ERRORS_TOTAL'["monitoring_loop_error"] =
                           ERRORS_TOTAL["monitoring_loop_error"] + 1
          /\ (workers[w] = "sleep" /\ workers'[w] # "sleep") => workers'[w] = "test"
          /\ (workers[w] # "done" /\ workers'[w] = "done") =>
                workers[w] = "test" /\ stop_flag]_vars

\* The worker whose last iteration raised is polling again.
C25_Witness ==
    /\ IterationRaised(lastPoll)
    /\ workers[lastPoll.worker] = "poll"
    /\ ERRORS_TOTAL["monitoring_loop_error"] = 1

\* C26: check_health_requirements returns a Boolean for every medical history,
\* and False for one whose blood_pressure entry lacks the systolic or the
\* diastolic value.
C26_IncompletePressureFails ==
    HealthDone =>
        /\ health.outcome.kind = "return"
        /\ health.outcome.value \in BOOLEAN
        /\ ( /\ "blood_pressure" \in DOMAIN health.medical_history
             /\ DOMAIN health.medical_history["blood_pressure"]
                    # {"systolic", "diastolic"} ) =>
               ReturnsBool(health.outcome, FALSE)

TotalDone == total.state = "done"

\* C27: for a known plan calculate_total returns subtotal = base_price x
\* passengers, discount = 5% of the subtotal for 'full' and 0 for 'split' and
\* 'deposit', tax = 10% of (subtotal - discount) and total = subtotal -
\* discount + tax; for a non-negative base price and passenger count the
\* 'full' total does not exceed the 'split' or the 'deposit' total.
C27_TotalBreakdown ==
    (TotalDone /\ total.payment_plan \in PaymentPlans) =>
        /\ total.outcome.kind = "return"
        /\ LET v == total.outcome.value
               full == calculate_total(total.base_price, total.passengers, "full")
               split == calculate_total(total.base_price, total.passengers, "split")
               deposit == calculate_total(total.base_price, total.passengers,
                                          "deposit")
           IN  /\ v.subtotal = total.base_price * total.passengers * 1000
               /\ v.discount * 100 =
                      IF total.payment_plan = "full" THEN v.subtotal * 5 ELSE 0
               /\ v.tax * 10 = v.subtotal - v.discount
               /\ v.total = v.subtotal - v.discount + v.tax
               /\ (total.base_price >= 0 /\ total.passengers >= 0) =>
                      /\ full.value.total <= split.value.total
                      /\ full.value.total <= deposit.value.total

\* The 'full' plan for 3 passengers at 2500: 7500 - 375 + 712.5 = 7837.5.
C27_Witness ==
    /\ TotalDone
    /\ total.payment_plan = "full"
    /\ total.base_price = 2500
    /\ total.passengers = 3
    /\ total.outcome.value.discount = 375000
    /\ total.outcome.value.total = 7837500

\* C28: create_training_schedule lays the modules out in list order without
\* overlap (the first starts at start_date, each next one the day after the
\* previous one ends) and every module ends on or before end_date, which is 7
\* days before departure.
C28_ModulesWithinSchedule ==
    training.state = "done" =>
        LET sch == training.schedule
            m == sch.training_modules
        IN  /\ sch.end_date = training.departure_date - 7
            /\ Len(m) = Len(training.training_types)
            /\ \A i \in 1..Len(m) :
                  /\ m[i].type = training.training_types[i]
                  /\ m[i].start_date =
                         IF i = 1 THEN sch.start_date ELSE m[i - 1].end_date + 1
                  /\ m[i].end_date <= sch.end_date

\* C29: get_weather_recommendation, alone or inside get_full_weather_report,
\* recommends postponing the trip whenever the solar activity or the radiation
\* level is 'high' or 'extreme' or the meteoroid risk is 'high' or 'severe'.
C29_UnsafeWeatherPostpones ==
    ( /\ weather.state = "done"
      /\ \/ weather.solar_activity \in {"high", "extreme"}
         \/ weather.radiation_level \in {"high", "extreme"}
         \/ weather.meteoroid_risk \in {"high", "severe"} ) =>
        /\ weather.recommendation # RecommendStable
        /\ weather.recommendation = RecommendPostpone

\* A datetime whose day lies on the 780-day cycle counted from 2022-09-01.
OnCycle(t) == (t \div 24) % 780 = 0

\* C30: get_next_launch_window returns no time before start_date: start_date
\* itself for 'moon', the first date on or after start_date on the 780-day
\* cycle counted from 2022-09-01 for 'mars', start_date plus 12 hours for any
\* other destination.
C30_NextLaunchWindow ==
    launch.state = "done" =>
        /\ launch.window >= launch.start_date
        /\ launch.destination = "moon" => launch.window = launch.start_date
        /\ launch.destination = "mars" =>
              /\ OnCycle(launch.window)
              /\ launch.window - launch.start_date < 780 * 24
              /\ OnCycle(launch.start_date) => launch.window = launch.start_date
        /\ launch.destination \notin {"moon", "mars"} =>
              launch.window = launch.start_date + 12

=============================================================================
